---- MODULE Spec2Model ----
(***************************************************************************)
(* Payment instruction parser service (parse-instruction): tokenizer,      *)
(* lexical validators, grammar state machine, business rule validator,     *)
(* error prioritizer and settlement, as one call of parseInstruction over  *)
(* an account list and an instruction string.                              *)
(*                                                                         *)
(* Strings are sequences of one-character strings.  A nullable field is a  *)
(* sequence of length 0 (null / undefined) or 1 (the value).               *)
(***************************************************************************)
EXTENDS Integers, Sequences, FiniteSets, TLC

VARIABLES
  accounts,     \* serviceData.accounts
  instruction,  \* serviceData.instruction
  today,        \* the UTC calendar day of the system clock
  pc,           \* "idle": no call has been made, "done": the last call has returned
  parseResult,  \* parsed: the parse result of the last call
  ruleResult,   \* validation: the result of validateBusinessRules in the last call
  response,     \* the response of the last call
  calls,        \* calls made so far with these inputs
  ticks,        \* days the clock has advanced
  history,      \* per call made so far: its response and the clock day it ran on
  tokenList,    \* the token list of a call that is followed step by step
  machine,      \* the locals of parseWithStateMachine in such a call
  steps         \* iterations of the parser's loop executed in such a call

vars == <<accounts, instruction, today, pc, parseResult, ruleResult, response, calls, ticks, history,
          tokenList, machine, steps>>

\* ------------------------------------------------------------------ values

Null == <<>>
Some(v) == <<v>>

LowerLetters == <<"a","b","c","d","e","f","g","h","i","j","k","l","m",
                  "n","o","p","q","r","s","t","u","v","w","x","y","z">>
UpperLetters == <<"A","B","C","D","E","F","G","H","I","J","K","L","M",
                  "N","O","P","Q","R","S","T","U","V","W","X","Y","Z">>
DigitChars == <<"0","1","2","3","4","5","6","7","8","9">>

Range(s) == {s[i] : i \in 1..Len(s)}

LowerSet == Range(LowerLetters)
UpperSet == Range(UpperLetters)
DigitSet == Range(DigitChars)

IsDigit(c) == c \in DigitSet
IsLetter(c) == c \in LowerSet \/ c \in UpperSet
WhiteSpace == {" ", "\t"}
IsSpace(c) == c \in WhiteSpace

DigitValues == [c \in DigitSet |-> (CHOOSE i \in 1..10 : DigitChars[i] = c) - 1]
DigitVal(c) == DigitValues[c]

UpperOf == [c \in LowerSet |-> UpperLetters[CHOOSE i \in 1..26 : LowerLetters[i] = c]]
LowerOf == [c \in UpperSet |-> LowerLetters[CHOOSE i \in 1..26 : UpperLetters[i] = c]]

\* String.prototype.toUpperCase on one character, then on a string
UpperChar(c) == IF c \in LowerSet THEN UpperOf[c] ELSE c

\* a slip: tokens compared and stored in the case they were written in
toUpperCaseAsWritten(s) == s

toUpperCase(s) == [i \in 1..Len(s) |-> UpperChar(s[i])]

LowerChar(c) == IF c \in UpperSet THEN LowerOf[c] ELSE c

toLowerCase(s) == [i \in 1..Len(s) |-> LowerChar(s[i])]

\* ------------------------------------------------------------------ constants of the service

SUPPORTED_CURRENCIES == { <<"N","G","N">>, <<"U","S","D">>, <<"G","B","P">>, <<"G","H","S">> }

\* a slip: the pending code written as the successful one
STATUS_CODES_PendingAsSuccessful ==
  [ SUCCESSFUL |-> "AP00", PENDING |-> "AP00",
    MALFORMED |-> "SY03", MISSING_KEYWORD |-> "SY01", INVALID_ORDER |-> "SY02",
    INVALID_AMOUNT |-> "AM01", INVALID_ACCOUNT_ID |-> "AC04", INVALID_DATE |-> "DT01",
    ACCOUNT_NOT_FOUND |-> "AC03", UNSUPPORTED_CURRENCY |-> "CU02",
    CURRENCY_MISMATCH |-> "CU01", SAME_ACCOUNT |-> "AC02", INSUFFICIENT_FUNDS |-> "AC01" ]

STATUS_CODES ==
  [ SUCCESSFUL |-> "AP00", PENDING |-> "AP02",
    MALFORMED |-> "SY03", MISSING_KEYWORD |-> "SY01", INVALID_ORDER |-> "SY02",
    INVALID_AMOUNT |-> "AM01", INVALID_ACCOUNT_ID |-> "AC04", INVALID_DATE |-> "DT01",
    ACCOUNT_NOT_FOUND |-> "AC03", UNSUPPORTED_CURRENCY |-> "CU02",
    CURRENCY_MISMATCH |-> "CU01", SAME_ACCOUNT |-> "AC02", INSUFFICIENT_FUNDS |-> "AC01" ]

States ==
  <<"START", "TYPE", "AMOUNT", "CURRENCY", "FIRST_KEYWORD", "FIRST_ACCOUNT_KEYWORD",
    "FIRST_ACCOUNT", "FOR", "SECOND_TYPE", "SECOND_KEYWORD", "SECOND_ACCOUNT_KEYWORD",
    "SECOND_ACCOUNT", "ON", "DATE", "COMPLETE">>

KW_DEBIT == <<"D","E","B","I","T">>
KW_CREDIT == <<"C","R","E","D","I","T">>
KW_FROM == <<"F","R","O","M">>
KW_TO == <<"T","O">>
KW_ACCOUNT == <<"A","C","C","O","U","N","T">>
KW_FOR == <<"F","O","R">>
KW_ON == <<"O","N">>

\* ------------------------------------------------------------------ tokenizer

\* An instruction string is held as the sequence of its maximal runs of whitespace
\* and of non-whitespace characters: "  DEBIT 30" is << "  ", "DEBIT", " ", "30" >>.
\* Every string has exactly one such decomposition; runs are non-empty and alternate.
IsSpaceRun(run) == IsSpace(run[1])

\* instruction.trim()
Trim(s) ==
  LET first == IF s # <<>> /\ IsSpaceRun(s[1]) THEN 2 ELSE 1
      last == IF s # <<>> /\ IsSpaceRun(s[Len(s)]) THEN Len(s) - 1 ELSE Len(s)
  IN  SubSeq(s, first, last)

\* .replace(/\s+/g, ' '): every maximal run of whitespace becomes one space
CollapseSpaces(s) == [i \in 1..Len(s) |-> IF IsSpaceRun(s[i]) THEN <<" ">> ELSE s[i]]

\* .split(' ') over the characters s[i][k..] and the runs after them: the pieces
\* between single spaces, empty pieces included
RECURSIVE SplitFrom(_, _, _, _, _)
SplitFrom(s, i, k, cur, out) ==
  IF i > Len(s) THEN Append(out, cur)
  ELSE IF k > Len(s[i]) THEN SplitFrom(s, i + 1, 1, cur, out)
  ELSE IF ~IsSpaceRun(s[i]) THEN SplitFrom(s, i + 1, 1, cur \o s[i], out)
  ELSE IF s[i][k] = " " THEN SplitFrom(s, i, k + 1, <<>>, Append(out, cur))
  ELSE SplitFrom(s, i, k + 1, Append(cur, s[i][k]), out)

Split(s) == SplitFrom(s, 1, 1, <<>>, <<>>)

tokenize(instr) ==
  LET normalized == CollapseSpaces(Trim(instr))
  IN  SelectSeq(Split(normalized), LAMBDA word : Len(word) > 0)

\* ------------------------------------------------------------------ lexical validators

isValidAccountId(id) ==
  \A i \in 1..Len(id) :
    LET char == id[i]
        isLetter == IsLetter(char)
        isNumber == IsDigit(char)
        isSpecial == char \in {"-", ".", "@"}
    IN  isLetter \/ isNumber \/ isSpecial

\* parseInt of a string of decimal digits
RECURSIVE DigitsValue(_)
DigitsValue(ds) ==
  IF ds = <<>> THEN 0 ELSE 10 * DigitsValue(SubSeq(ds, 1, Len(ds) - 1)) + DigitVal(ds[Len(ds)])

isValidDateFormat(date) ==
  IF Len(date) # 10 THEN FALSE
  ELSE IF date[5] # "-" \/ date[8] # "-" THEN FALSE
  ELSE
    LET year == SubSeq(date, 1, 4)
        month == SubSeq(date, 6, 7)
        day == SubSeq(date, 9, 10)
        digits == year \o month \o day
    IN  IF \E i \in 1..Len(digits) : ~IsDigit(digits[i]) THEN FALSE
        ELSE
          LET monthNum == DigitsValue(month)
              dayNum == DigitsValue(day)
          IN  monthNum >= 1 /\ monthNum <= 12 /\ dayNum >= 1 /\ dayNum <= 31

\* new Date(y, m, d): local midnight of a calendar day, as a number that orders
\* calendar days as their timestamps do; a year 0..99 is read as 1900 + year.
LocalMidnight(y, m, d) ==
  LET yy == IF y >= 0 /\ y <= 99 THEN 1900 + y ELSE y
  IN  372 * yy + 31 * (m - 1) + d

\* a slip: the operands of the comparison exchanged
isFutureDateSwapped(dateStr, now) ==
  LET nowDate == LocalMidnight(now.y, now.m, now.d)
      compareDate == LocalMidnight(DigitsValue(SubSeq(dateStr, 1, 4)),
                                   DigitsValue(SubSeq(dateStr, 6, 7)),
                                   DigitsValue(SubSeq(dateStr, 9, 10)))
  IN  nowDate > compareDate

\* a slip: only the days of the month compared
isFutureDateDayOnly(dateStr, now) == DigitsValue(SubSeq(dateStr, 9, 10)) > now.d

\* a slip: the day of the call itself counted as future
isFutureDateOrToday(dateStr, now) ==
  LET nowDate == LocalMidnight(now.y, now.m, now.d)
      compareDate == LocalMidnight(DigitsValue(SubSeq(dateStr, 1, 4)),
                                   DigitsValue(SubSeq(dateStr, 6, 7)),
                                   DigitsValue(SubSeq(dateStr, 9, 10)))
  IN  compareDate >= nowDate

\* now is the UTC calendar day of new Date(); dateStr passed isValidDateFormat
isFutureDate(dateStr, now) ==
  LET inputDate == [ y |-> DigitsValue(SubSeq(dateStr, 1, 4)),
                     m |-> DigitsValue(SubSeq(dateStr, 6, 7)),
                     d |-> DigitsValue(SubSeq(dateStr, 9, 10)) ]
      nowDate == LocalMidnight(now.y, now.m, now.d)
      compareDate == LocalMidnight(inputDate.y, inputDate.m, inputDate.d)
  IN  compareDate > nowDate

\* parseInt(token, 10) of a token without whitespace: an optional sign, then the
\* longest prefix of digits; NaN when that prefix is empty.
NaN == <<>>

RECURSIVE DigitPrefix(_)
DigitPrefix(s) ==
  IF s # <<>> /\ IsDigit(Head(s)) THEN <<Head(s)>> \o DigitPrefix(Tail(s)) ELSE <<>>

parseInt(token) ==
  LET signed == token # <<>> /\ Head(token) \in {"+", "-"}
      body == IF signed THEN Tail(token) ELSE token
      ds == DigitPrefix(body)
  IN  IF ds = <<>> THEN NaN
      ELSE Some(IF signed /\ Head(token) = "-" THEN 0 - DigitsValue(ds) ELSE DigitsValue(ds))

\* ------------------------------------------------------------------ grammar state machine

Err(code, message) == [code |-> code, message |-> message]

EmptyResult ==
  [ type |-> Null, amount |-> Null, currency |-> Null, debitAccount |-> Null,
    creditAccount |-> Null, executeBy |-> Null, errors |-> <<>> ]

\* the locals of parseWithStateMachine before its loop; returned is TRUE once a
\* return statement inside the loop has been executed
ParserInit == [state |-> "START", index |-> 0, returned |-> FALSE, result |-> EmptyResult]

\* a slip: the violation recorded and the next token taken up, without return
FatalContinuing(ps, code, message) ==
  [ps EXCEPT !.index = @ + 1,
             !.result.errors = Append(@, Err(code, message))]

\* a 'push error; return result' arm of the switch
Fatal(ps, code, message) ==
  [ps EXCEPT !.returned = TRUE,
             !.result.errors = Append(@, Err(code, message))]

\* a slip: index++ left out
AdvanceInPlace(ps, next) == [ps EXCEPT !.state = next]

\* a 'state = next; break' arm, followed by index++
Advance(ps, next) == [ps EXCEPT !.state = next, !.index = @ + 1]

\* parseStep with the fields the two id tokens are stored in left open: the first
\* id goes to debitAccount iff first[isDebit], the second to creditAccount iff
\* second[isDebit]
parseStepStoring(ps, token, first, second) ==
  LET tokenUpper == toUpperCase(token)
      result == ps.result
      isDebit == result.type = Some(KW_DEBIT)
  IN
  CASE ps.state = "START" ->
         IF tokenUpper = KW_DEBIT \/ tokenUpper = KW_CREDIT
           THEN Advance([ps EXCEPT !.result.type = Some(tokenUpper)], "TYPE")
           ELSE Fatal(ps, STATUS_CODES.MISSING_KEYWORD, <<"MISSING_KEYWORD">>)
    [] ps.state = "TYPE" ->
         LET amount == parseInt(token)
         IN  IF "." \in Range(token)
               THEN Advance([ps EXCEPT !.result.errors =
                      Append(@, Err(STATUS_CODES.INVALID_AMOUNT, <<"INVALID_AMOUNT">>))], "AMOUNT")
             ELSE IF amount = NaN \/ amount[1] <= 0
               THEN Advance([ps EXCEPT !.result.errors =
                      Append(@, Err(STATUS_CODES.INVALID_AMOUNT, <<"INVALID_AMOUNT">>))], "AMOUNT")
             ELSE Advance([ps EXCEPT !.result.amount = amount], "AMOUNT")
    [] ps.state = "AMOUNT" ->
         Advance([ps EXCEPT !.result.currency = Some(tokenUpper)], "CURRENCY")
    [] ps.state = "CURRENCY" ->
         LET expectedFirst == IF isDebit THEN KW_FROM ELSE KW_TO
         IN  IF tokenUpper = expectedFirst
               THEN Advance(ps, "FIRST_KEYWORD")
               ELSE Fatal(ps, STATUS_CODES.INVALID_ORDER, <<"INVALID_KEYWORD_ORDER">>)
    [] ps.state = "FIRST_KEYWORD" ->
         IF tokenUpper = KW_ACCOUNT
           THEN Advance(ps, "FIRST_ACCOUNT_KEYWORD")
           ELSE Fatal(ps, STATUS_CODES.MISSING_KEYWORD, <<"MISSING_KEYWORD">>)
    [] ps.state = "FIRST_ACCOUNT_KEYWORD" ->
         IF first[isDebit]
           THEN Advance([ps EXCEPT !.result.debitAccount = Some(token)], "FIRST_ACCOUNT")
           ELSE Advance([ps EXCEPT !.result.creditAccount = Some(token)], "FIRST_ACCOUNT")
    [] ps.state = "FIRST_ACCOUNT" ->
         IF tokenUpper = KW_FOR
           THEN Advance(ps, "FOR")
           ELSE Fatal(ps, STATUS_CODES.MISSING_KEYWORD, <<"MISSING_KEYWORD">>)
    [] ps.state = "FOR" ->
         LET expectedSecondType == IF isDebit THEN KW_CREDIT ELSE KW_DEBIT
         IN  IF tokenUpper = expectedSecondType
               THEN Advance(ps, "SECOND_TYPE")
               ELSE Fatal(ps, STATUS_CODES.INVALID_ORDER, <<"INVALID_KEYWORD_ORDER">>)
    [] ps.state = "SECOND_TYPE" ->
         LET expectedSecond == IF isDebit THEN KW_TO ELSE KW_FROM
         IN  IF tokenUpper = expectedSecond
               THEN Advance(ps, "SECOND_KEYWORD")
               ELSE Fatal(ps, STATUS_CODES.INVALID_ORDER, <<"INVALID_KEYWORD_ORDER">>)
    [] ps.state = "SECOND_KEYWORD" ->
         IF tokenUpper = KW_ACCOUNT
           THEN Advance(ps, "SECOND_ACCOUNT_KEYWORD")
           ELSE Fatal(ps, STATUS_CODES.MISSING_KEYWORD, <<"MISSING_KEYWORD">>)
    [] ps.state = "SECOND_ACCOUNT_KEYWORD" ->
         IF second[isDebit]
           THEN Advance([ps EXCEPT !.result.creditAccount = Some(token)], "SECOND_ACCOUNT")
           ELSE Advance([ps EXCEPT !.result.debitAccount = Some(token)], "SECOND_ACCOUNT")
    [] ps.state = "SECOND_ACCOUNT" ->
         IF tokenUpper = KW_ON
           THEN Advance(ps, "ON")
           ELSE Fatal(ps, STATUS_CODES.MALFORMED, <<"MALFORMED_INSTRUCTION">>)
    [] ps.state = "ON" ->
         IF isValidDateFormat(token)
           THEN Advance([ps EXCEPT !.result.executeBy = Some(token)], "DATE")
           ELSE Advance([ps EXCEPT !.result.errors =
                  Append(@, Err(STATUS_CODES.INVALID_DATE, <<"INVALID_DATE_FORMAT">>))], "DATE")
    [] ps.state = "DATE" ->
         Fatal(ps, STATUS_CODES.MALFORMED, <<"MALFORMED_INSTRUCTION">>)
    [] OTHER ->
         Fatal(ps, STATUS_CODES.MALFORMED, <<"MALFORMED_INSTRUCTION">>)

\* a slip: the roles taken from the position of the id, the first debited
parseStepRolesByPosition(ps, token) ==
  parseStepStoring(ps, token, [b \in BOOLEAN |-> TRUE], [b \in BOOLEAN |-> TRUE])

\* a slip: the second id stored in the field of the first
parseStepOneField(ps, token) ==
  parseStepStoring(ps, token, [b \in BOOLEAN |-> b], [b \in BOOLEAN |-> ~b])

\* one iteration of the while loop on tokens[index]
parseStep(ps, token) ==
  LET tokenUpper == toUpperCase(token)
      result == ps.result
      isDebit == result.type = Some(KW_DEBIT)
  IN
  CASE ps.state = "START" ->
         IF tokenUpper = KW_DEBIT \/ tokenUpper = KW_CREDIT
           THEN Advance([ps EXCEPT !.result.type = Some(tokenUpper)], "TYPE")
           ELSE Fatal(ps, STATUS_CODES.MISSING_KEYWORD, <<"MISSING_KEYWORD">>)
    [] ps.state = "TYPE" ->
         LET amount == parseInt(token)
         IN  IF "." \in Range(token)
               THEN Advance([ps EXCEPT !.result.errors =
                      Append(@, Err(STATUS_CODES.INVALID_AMOUNT, <<"INVALID_AMOUNT">>))], "AMOUNT")
             ELSE IF amount = NaN \/ amount[1] <= 0
               THEN Advance([ps EXCEPT !.result.errors =
                      Append(@, Err(STATUS_CODES.INVALID_AMOUNT, <<"INVALID_AMOUNT">>))], "AMOUNT")
             ELSE Advance([ps EXCEPT !.result.amount = amount], "AMOUNT")
    [] ps.state = "AMOUNT" ->
         Advance([ps EXCEPT !.result.currency = Some(tokenUpper)], "CURRENCY")
    [] ps.state = "CURRENCY" ->
         LET expectedFirst == IF isDebit THEN KW_FROM ELSE KW_TO
         IN  IF tokenUpper = expectedFirst
               THEN Advance(ps, "FIRST_KEYWORD")
               ELSE Fatal(ps, STATUS_CODES.INVALID_ORDER, <<"INVALID_KEYWORD_ORDER">>)
    [] ps.state = "FIRST_KEYWORD" ->
         IF tokenUpper = KW_ACCOUNT
           THEN Advance(ps, "FIRST_ACCOUNT_KEYWORD")
           ELSE Fatal(ps, STATUS_CODES.MISSING_KEYWORD, <<"MISSING_KEYWORD">>)
    [] ps.state = "FIRST_ACCOUNT_KEYWORD" ->
         IF isDebit
           THEN Advance([ps EXCEPT !.result.debitAccount = Some(token)], "FIRST_ACCOUNT")
           ELSE Advance([ps EXCEPT !.result.creditAccount = Some(token)], "FIRST_ACCOUNT")
    [] ps.state = "FIRST_ACCOUNT" ->
         IF tokenUpper = KW_FOR
           THEN Advance(ps, "FOR")
           ELSE Fatal(ps, STATUS_CODES.MISSING_KEYWORD, <<"MISSING_KEYWORD">>)
    [] ps.state = "FOR" ->
         LET expectedSecondType == IF isDebit THEN KW_CREDIT ELSE KW_DEBIT
         IN  IF tokenUpper = expectedSecondType
               THEN Advance(ps, "SECOND_TYPE")
               ELSE Fatal(ps, STATUS_CODES.INVALID_ORDER, <<"INVALID_KEYWORD_ORDER">>)
    [] ps.state = "SECOND_TYPE" ->
         LET expectedSecond == IF isDebit THEN KW_TO ELSE KW_FROM
         IN  IF tokenUpper = expectedSecond
               THEN Advance(ps, "SECOND_KEYWORD")
               ELSE Fatal(ps, STATUS_CODES.INVALID_ORDER, <<"INVALID_KEYWORD_ORDER">>)
    [] ps.state = "SECOND_KEYWORD" ->
         IF tokenUpper = KW_ACCOUNT
           THEN Advance(ps, "SECOND_ACCOUNT_KEYWORD")
           ELSE Fatal(ps, STATUS_CODES.MISSING_KEYWORD, <<"MISSING_KEYWORD">>)
    [] ps.state = "SECOND_ACCOUNT_KEYWORD" ->
         IF isDebit
           THEN Advance([ps EXCEPT !.result.creditAccount = Some(token)], "SECOND_ACCOUNT")
           ELSE Advance([ps EXCEPT !.result.debitAccount = Some(token)], "SECOND_ACCOUNT")
    [] ps.state = "SECOND_ACCOUNT" ->
         IF tokenUpper = KW_ON
           THEN Advance(ps, "ON")
           ELSE Fatal(ps, STATUS_CODES.MALFORMED, <<"MALFORMED_INSTRUCTION">>)
    [] ps.state = "ON" ->
         IF isValidDateFormat(token)
           THEN Advance([ps EXCEPT !.result.executeBy = Some(token)], "DATE")
           ELSE Advance([ps EXCEPT !.result.errors =
                  Append(@, Err(STATUS_CODES.INVALID_DATE, <<"INVALID_DATE_FORMAT">>))], "DATE")
    [] ps.state = "DATE" ->
         Fatal(ps, STATUS_CODES.MALFORMED, <<"MALFORMED_INSTRUCTION">>)
    [] OTHER ->
         Fatal(ps, STATUS_CODES.MALFORMED, <<"MALFORMED_INSTRUCTION">>)

\* the loop condition, given that no return has left the function
LoopCond(ps, tokens) == ~ps.returned /\ ps.index < Len(tokens) /\ ps.state # "COMPLETE"

RECURSIVE parseLoop(_, _)
parseLoop(ps, tokens) ==
  IF LoopCond(ps, tokens) THEN parseLoop(parseStep(ps, tokens[ps.index + 1]), tokens) ELSE ps

\* a slip: an instruction that ends early is returned as it stands
parseFinishAsParsed(ps) == ps.result

\* the code after the loop, up to the final return
parseFinish(ps) ==
  IF ps.returned THEN ps.result
  ELSE
    LET state == IF ps.state = "SECOND_ACCOUNT" \/ ps.state = "DATE" THEN "COMPLETE" ELSE ps.state
    IN  IF state # "COMPLETE" /\ Len(ps.result.errors) = 0
          THEN [ps.result EXCEPT !.errors =
                  Append(@, Err(STATUS_CODES.MALFORMED, <<"MALFORMED_INSTRUCTION">>))]
          ELSE ps.result

parseWithStateMachine(tokens) == parseFinish(parseLoop(ParserInit, tokens))

\* ------------------------------------------------------------------ business rules

\* JavaScript truthiness of a nullable string and of a nullable number
TruthyStr(o) == o # Null /\ o[1] # <<>>
TruthyNum(o) == o # Null /\ o[1] # 0

\* accounts.find((a) => a.id === id): the first match, or undefined
find(accts, id) ==
  LET hits == {i \in 1..Len(accts) : Some(accts[i].id) = id}
  IN  IF hits = {} THEN Null
      ELSE Some(accts[CHOOSE i \in hits : \A j \in hits : i <= j])

\* a slip: a rule is skipped once a violation has been recorded
PushIfNoneYet(errors, cond, code, message) ==
  IF cond /\ errors = <<>> THEN Append(errors, Err(code, message)) ELSE errors

PushIf(errors, cond, code, message) ==
  IF cond THEN Append(errors, Err(code, message)) ELSE errors

\* a slip: the funds rule written with <=, so that the balance may not be used up
validateBusinessRulesStrictFunds(parsed, accts) ==
  LET e0 == parsed.errors
      e1 == PushIf(e0, TruthyStr(parsed.debitAccount) /\ ~isValidAccountId(parsed.debitAccount[1]),
                   STATUS_CODES.INVALID_ACCOUNT_ID, <<"INVALID_ACCOUNT_ID", parsed.debitAccount>>)
      e2 == PushIf(e1, TruthyStr(parsed.creditAccount) /\ ~isValidAccountId(parsed.creditAccount[1]),
                   STATUS_CODES.INVALID_ACCOUNT_ID, <<"INVALID_ACCOUNT_ID", parsed.creditAccount>>)
      e3 == PushIf(e2, parsed.debitAccount = parsed.creditAccount,
                   STATUS_CODES.SAME_ACCOUNT, <<"SAME_ACCOUNT_ERROR">>)
      e4 == PushIf(e3, TruthyStr(parsed.currency) /\ parsed.currency[1] \notin SUPPORTED_CURRENCIES,
                   STATUS_CODES.UNSUPPORTED_CURRENCY, <<"UNSUPPORTED_CURRENCY">>)
      debitAccount == find(accts, parsed.debitAccount)
      creditAccount == find(accts, parsed.creditAccount)
      e5 == PushIf(e4, TruthyStr(parsed.debitAccount) /\ debitAccount = Null,
                   STATUS_CODES.ACCOUNT_NOT_FOUND, <<"ACCOUNT_NOT_FOUND", parsed.debitAccount>>)
      e6 == PushIf(e5, TruthyStr(parsed.creditAccount) /\ creditAccount = Null,
                   STATUS_CODES.ACCOUNT_NOT_FOUND, <<"ACCOUNT_NOT_FOUND", parsed.creditAccount>>)
      both == debitAccount # Null /\ creditAccount # Null
      e7 == PushIf(e6, both /\ debitAccount[1].currency # creditAccount[1].currency,
                   STATUS_CODES.CURRENCY_MISMATCH, <<"CURRENCY_MISMATCH">>)
      e8 == PushIf(e7, both /\ TruthyStr(parsed.currency)
                         /\ toUpperCase(debitAccount[1].currency) # parsed.currency[1],
                   STATUS_CODES.CURRENCY_MISMATCH,
                   <<"CURRENCY_MISMATCH_INSTRUCTION", parsed.currency,
                     Some(toUpperCase(debitAccount[1].currency))>>)
      e9 == PushIf(e8, both /\ TruthyNum(parsed.amount)
                         /\ debitAccount[1].balance <= parsed.amount[1],
                   STATUS_CODES.INSUFFICIENT_FUNDS,
                   <<"INSUFFICIENT_FUNDS", Some(debitAccount[1]), parsed.amount>>)
  IN  [errors |-> e9, debitAccount |-> debitAccount, creditAccount |-> creditAccount]

validateBusinessRules(parsed, accts) ==
  LET e0 == parsed.errors
      e1 == PushIf(e0, TruthyStr(parsed.debitAccount) /\ ~isValidAccountId(parsed.debitAccount[1]),
                   STATUS_CODES.INVALID_ACCOUNT_ID, <<"INVALID_ACCOUNT_ID", parsed.debitAccount>>)
      e2 == PushIf(e1, TruthyStr(parsed.creditAccount) /\ ~isValidAccountId(parsed.creditAccount[1]),
                   STATUS_CODES.INVALID_ACCOUNT_ID, <<"INVALID_ACCOUNT_ID", parsed.creditAccount>>)
      e3 == PushIf(e2, parsed.debitAccount = parsed.creditAccount,
                   STATUS_CODES.SAME_ACCOUNT, <<"SAME_ACCOUNT_ERROR">>)
      e4 == PushIf(e3, TruthyStr(parsed.currency) /\ parsed.currency[1] \notin SUPPORTED_CURRENCIES,
                   STATUS_CODES.UNSUPPORTED_CURRENCY, <<"UNSUPPORTED_CURRENCY">>)
      debitAccount == find(accts, parsed.debitAccount)
      creditAccount == find(accts, parsed.creditAccount)
      e5 == PushIf(e4, TruthyStr(parsed.debitAccount) /\ debitAccount = Null,
                   STATUS_CODES.ACCOUNT_NOT_FOUND, <<"ACCOUNT_NOT_FOUND", parsed.debitAccount>>)
      e6 == PushIf(e5, TruthyStr(parsed.creditAccount) /\ creditAccount = Null,
                   STATUS_CODES.ACCOUNT_NOT_FOUND, <<"ACCOUNT_NOT_FOUND", parsed.creditAccount>>)
      both == debitAccount # Null /\ creditAccount # Null
      e7 == PushIf(e6, both /\ debitAccount[1].currency # creditAccount[1].currency,
                   STATUS_CODES.CURRENCY_MISMATCH, <<"CURRENCY_MISMATCH">>)
      e8 == PushIf(e7, both /\ TruthyStr(parsed.currency)
                         /\ toUpperCase(debitAccount[1].currency) # parsed.currency[1],
                   STATUS_CODES.CURRENCY_MISMATCH,
                   <<"CURRENCY_MISMATCH_INSTRUCTION", parsed.currency,
                     Some(toUpperCase(debitAccount[1].currency))>>)
      e9 == PushIf(e8, both /\ TruthyNum(parsed.amount)
                         /\ debitAccount[1].balance < parsed.amount[1],
                   STATUS_CODES.INSUFFICIENT_FUNDS,
                   <<"INSUFFICIENT_FUNDS", Some(debitAccount[1]), parsed.amount>>)
  IN  [errors |-> e9, debitAccount |-> debitAccount, creditAccount |-> creditAccount]

\* ------------------------------------------------------------------ error prioritizer

\* a slip: the table lists the currency code before the syntax codes
priorityCurrencyFirst(code) ==
  CASE code = "CU02" -> 1 [] code = "SY03" -> 2 [] code = "SY01" -> 3
    [] code = "SY02" -> 4 [] code = "AM01" -> 5 [] code = "AC04" -> 6
    [] code = "DT01" -> 7 [] code = "AC03" -> 8 [] code = "CU01" -> 9
    [] code = "AC02" -> 10 [] code = "AC01" -> 11 [] OTHER -> 999

priority(code) ==
  CASE code = "SY03" -> 1 [] code = "SY01" -> 2 [] code = "SY02" -> 3
    [] code = "AM01" -> 4 [] code = "AC04" -> 5 [] code = "DT01" -> 6
    [] code = "AC03" -> 7 [] code = "CU02" -> 8 [] code = "CU01" -> 9
    [] code = "AC02" -> 10 [] code = "AC01" -> 11 [] OTHER -> 999

\* the forEach of selectPrimaryError over errors[i..]: acc = [primaryError, lowestPriority]
RECURSIVE selectFrom(_, _, _)
selectFrom(errors, i, acc) ==
  IF i > Len(errors) THEN acc
  ELSE
    LET p == priority(errors[i].code)
    IN  IF p < acc.lowestPriority
          THEN selectFrom(errors, i + 1, [primaryError |-> Some(errors[i]), lowestPriority |-> p])
          ELSE selectFrom(errors, i + 1, acc)

selectPrimaryError(errors) ==
  selectFrom(errors, 1, [primaryError |-> Null, lowestPriority |-> 999]).primaryError

\* ------------------------------------------------------------------ orchestrator and settlement

View(account, balance) ==
  [ id |-> account.id, balance |-> balance, balance_before |-> account.balance,
    currency |-> toUpperCase(account.currency) ]

\* the 'Unparseable - return nulls' response
nullResponse(error) ==
  [ type |-> Null, amount |-> Null, currency |-> Null, debit_account |-> Null,
    credit_account |-> Null, execute_by |-> Null, status |-> "failed",
    status_reason |-> error.message, status_code |-> error.code, accounts |-> <<>> ]

\* data.accounts.forEach of the 'Parseable but invalid' branch
RECURSIVE involvedAccounts(_, _)
involvedAccounts(accts, parsed) ==
  IF accts = <<>> THEN <<>>
  ELSE
    LET account == Head(accts)
    IN  IF Some(account.id) = parsed.debitAccount \/ Some(account.id) = parsed.creditAccount
          THEN <<View(account, account.balance)>> \o involvedAccounts(Tail(accts), parsed)
          ELSE involvedAccounts(Tail(accts), parsed)

\* a slip: a pending instruction moves the balances all the same
RECURSIVE processedAccountsAlwaysMoved(_, _, _, _)
processedAccountsAlwaysMoved(accts, validation, amount, isPending) ==
  IF accts = <<>> THEN <<>>
  ELSE
    LET account == Head(accts)
        rest == processedAccountsAlwaysMoved(Tail(accts), validation, amount, isPending)
    IN  IF account.id = validation.debitAccount[1].id
          THEN <<View(account, account.balance - amount)>> \o rest
        ELSE IF account.id = validation.creditAccount[1].id
          THEN <<View(account, account.balance + amount)>> \o rest
        ELSE rest

\* a slip: the two views in the order debit, credit instead of input order
processedAccountsDebitFirst(accts, validation, amount, isPending) ==
  LET debit == validation.debitAccount[1]
      credit == validation.creditAccount[1]
  IN  << View(debit, IF isPending THEN debit.balance ELSE debit.balance - amount),
         View(credit, IF isPending THEN credit.balance ELSE credit.balance + amount) >>

\* data.accounts.forEach of the success branch
RECURSIVE processedAccounts(_, _, _, _)
processedAccounts(accts, validation, amount, isPending) ==
  IF accts = <<>> THEN <<>>
  ELSE
    LET account == Head(accts)
        rest == processedAccounts(Tail(accts), validation, amount, isPending)
    IN  IF account.id = validation.debitAccount[1].id
          THEN <<View(account, IF isPending THEN account.balance ELSE account.balance - amount)>>
               \o rest
        ELSE IF account.id = validation.creditAccount[1].id
          THEN <<View(account, IF isPending THEN account.balance ELSE account.balance + amount)>>
               \o rest
        ELSE rest

\* a slip: INVALID_ORDER left out of the test
isUnparseableWithoutOrder(error) ==
  \/ error.code = STATUS_CODES.MALFORMED
  \/ error.code = STATUS_CODES.MISSING_KEYWORD

\* the test that selects the 'Unparseable - return nulls' response
isUnparseable(error) ==
  \/ error.code = STATUS_CODES.MALFORMED
  \/ error.code = STATUS_CODES.MISSING_KEYWORD
  \/ error.code = STATUS_CODES.INVALID_ORDER

\* parseInstruction from 'Check for errors' to the assignment of response
respond(parsed, validation, accts, now) ==
  IF Len(validation.errors) > 0
    THEN
      LET error == selectPrimaryError(validation.errors)[1]
      IN  IF isUnparseable(error)
            THEN nullResponse(error)
            ELSE [ type |-> parsed.type, amount |-> parsed.amount, currency |-> parsed.currency,
                   debit_account |-> parsed.debitAccount, credit_account |-> parsed.creditAccount,
                   execute_by |-> parsed.executeBy, status |-> "failed",
                   status_reason |-> error.message, status_code |-> error.code,
                   accounts |-> involvedAccounts(accts, parsed) ]
    ELSE
      LET isPending == TruthyStr(parsed.executeBy) /\ isFutureDate(parsed.executeBy[1], now)
      IN  [ type |-> parsed.type, amount |-> parsed.amount, currency |-> parsed.currency,
            debit_account |-> parsed.debitAccount, credit_account |-> parsed.creditAccount,
            execute_by |-> parsed.executeBy,
            status |-> IF isPending THEN "pending" ELSE "successful",
            status_reason |-> IF isPending THEN <<"TRANSACTION_PENDING">>
                                           ELSE <<"TRANSACTION_SUCCESSFUL">>,
            status_code |-> IF isPending THEN STATUS_CODES.PENDING ELSE STATUS_CODES.SUCCESSFUL,
            accounts |-> processedAccounts(accts, validation, parsed.amount[1], isPending) ]

parseInstruction(accts, instr, now) ==
  LET tokens == tokenize(instr)
      parsed == parseWithStateMachine(tokens)
      validation == validateBusinessRules(parsed, accts)
  IN  respond(parsed, validation, accts, now)

\* ------------------------------------------------------------------ inputs

MaxAccounts == 3
MaxDeviations == 2
MaxClockAccounts == 2
MaxClockDeviations == 1
MaxTicks == 1

USD == <<"U","S","D">>
Account(id, balance, currency) == [id |-> id, balance |-> balance, currency |-> currency]

AccountPool ==
  << Account(<<"a">>, 100, USD),
     Account(<<"b">>, 30, USD),
     Account(<<"a">>, 20, USD),
     Account(<<"c">>, 50, <<"g","b","p">>) >>

\* account lists: up to n distinct records of the pool, in any order
AccountListsUpTo(n) ==
  UNION { { [i \in 1..k |-> AccountPool[f[i]]] :
              f \in {g \in [1..k -> 1..Len(AccountPool)] :
                       \A i, j \in 1..k : i # j => g[i] # g[j]} } :
          k \in 0..n }

StartDay == [y |-> 2026, m |-> 12, d |-> 31]

AmountTokens == << <<"3","0">>, <<"0">>, <<"-","5">>, <<"1",".","5">>, <<"a","b","c">>, <<"1","2","x">> >>
CurrencyTokens == << USD, <<"u","s","d">>, <<"E","U","R">> >>
FirstIdTokens == << <<"a">>, <<"b">>, <<"A">>, <<"a","$">> >>
SecondIdTokens == << <<"b">>, <<"c">> >>
\* today, tomorrow and yesterday of StartDay, and a month 13
DateTokens ==
  << <<"2","0","2","6","-","1","2","-","3","1">>,
     <<"2","0","2","7","-","0","1","-","0","1">>,
     <<"2","0","2","6","-","1","2","-","3","0">>,
     <<"2","0","2","6","-","1","3","-","0","1">> >>
StrayToken == <<"S","E","N","D">>

\* positions of the keyword tokens of a grammatical instruction
KeywordPositions == {1, 4, 5, 7, 8, 9, 10, 12}

\* structural deviations: 0 none, 1 and 2 cut to a prefix, 3 and 4 a stray token in
\* place of a keyword, 5 a stray token at the end
Forms == 0..5
CutLength(form, len) == IF form = 1 THEN 0 ELSE len - 1
ReplacePos(form) == IF form = 3 THEN 1 ELSE 4

\* style: 0 upper case keywords and single spaces, 1 lower case keywords,
\* 2 tabs and repeated spaces around and between the words
Choices ==
  [ type : {"DEBIT", "CREDIT"}, amount : 0..(Len(AmountTokens) - 1),
    currency : 0..(Len(CurrencyTokens) - 1), id1 : 0..(Len(FirstIdTokens) - 1),
    id2 : 0..(Len(SecondIdTokens) - 1), date : 0..Len(DateTokens), form : Forms,
    style : 0..2 ]

Deviations(c) ==
  Cardinality({f \in {"amount", "currency", "id1", "id2", "date", "form", "style"} : c[f] # 0})

GrammaticalTokens(c) ==
  LET debit == c.type = "DEBIT"
  IN  << IF debit THEN KW_DEBIT ELSE KW_CREDIT,
         AmountTokens[c.amount + 1],
         CurrencyTokens[c.currency + 1],
         IF debit THEN KW_FROM ELSE KW_TO,
         KW_ACCOUNT,
         FirstIdTokens[c.id1 + 1],
         KW_FOR,
         IF debit THEN KW_CREDIT ELSE KW_DEBIT,
         IF debit THEN KW_TO ELSE KW_FROM,
         KW_ACCOUNT,
         SecondIdTokens[c.id2 + 1] >>
      \o (IF c.date = 0 THEN <<>> ELSE <<KW_ON, DateTokens[c.date]>>)

ChoiceTokens(c) ==
  LET g == GrammaticalTokens(c)
      cased == [i \in 1..Len(g) |->
                  IF c.style = 1 /\ i \in KeywordPositions THEN toLowerCase(g[i]) ELSE g[i]]
  IN  CASE c.form = 0 -> cased
        [] c.form \in 1..2 -> SubSeq(cased, 1, CutLength(c.form, Len(cased)))
        [] c.form \in 3..4 -> [cased EXCEPT ![ReplacePos(c.form)] = StrayToken]
        [] c.form = 5 -> Append(cased, StrayToken)

\* the words with the separator between them
Join(words, sep) ==
  [i \in 1..(IF words = <<>> THEN 0 ELSE 2 * Len(words) - 1) |->
     IF i % 2 = 1 THEN words[(i + 1) \div 2] ELSE sep]

InstructionOf(c) ==
  LET words == ChoiceTokens(c)
  IN  IF c.style # 2 THEN Join(words, <<" ">>)
      ELSE IF words = <<>> THEN << <<"\t", " ">> >>
      ELSE << <<"\t", " ">> >> \o Join(words, <<" ", " ">>) \o << <<" ">> >>

InstructionsUpTo(n) == { InstructionOf(c) : c \in {d \in Choices : Deviations(d) <= n} }

\* ------------------------------------------------------------------ clock

DaysInMonth(y, m) ==
  IF m \in {4, 6, 9, 11} THEN 30
  ELSE IF m = 2 THEN (IF y % 4 = 0 /\ (y % 100 # 0 \/ y % 400 = 0) THEN 29 ELSE 28)
  ELSE 31

NextDay(day) ==
  IF day.d < DaysInMonth(day.y, day.m) THEN [day EXCEPT !.d = @ + 1]
  ELSE IF day.m < 12 THEN [day EXCEPT !.m = @ + 1, !.d = 1]
  ELSE [y |-> day.y + 1, m |-> 1, d |-> 1]

\* ------------------------------------------------------------------ specification

NoResponse ==
  [ type |-> Null, amount |-> Null, currency |-> Null, debit_account |-> Null,
    credit_account |-> Null, execute_by |-> Null, status |-> "none",
    status_reason |-> <<>>, status_code |-> "none", accounts |-> <<>> ]

NoValidation == [errors |-> <<>>, debitAccount |-> Null, creditAccount |-> Null]

InitWith(lists, instructions) ==
  /\ accounts \in lists
  /\ instruction \in instructions
  /\ today = StartDay
  /\ pc = "idle"
  /\ parseResult = EmptyResult
  /\ ruleResult = NoValidation
  /\ response = NoResponse
  /\ calls = 0
  /\ ticks = 0
  /\ history = <<>>
  /\ tokenList = <<>>
  /\ machine = ParserInit
  /\ steps = 0

Init == InitWith(AccountListsUpTo(MaxAccounts), InstructionsUpTo(MaxDeviations))

\* one run of parseInstruction({accounts, instruction})
Call ==
  /\ parseResult' = parseWithStateMachine(tokenize(instruction))
  /\ ruleResult' = validateBusinessRules(parseResult', accounts)
  /\ response' = respond(parseResult', ruleResult', accounts, today)
  /\ calls' = calls + 1
  /\ history' = Append(history, [response |-> response', today |-> today])
  /\ pc' = "done"
  /\ UNCHANGED <<accounts, instruction, today, ticks, tokenList, machine, steps>>

\* the request is made
Process ==
  /\ pc = "idle"
  /\ Call

Next == Process

Spec == Init /\ [][Next]_vars

\* The request is made, and made once more with the same body; midnight UTC may
\* pass between the two calls.
InitClock == InitWith(AccountListsUpTo(MaxClockAccounts), InstructionsUpTo(MaxClockDeviations))

Repeat ==
  /\ pc = "done"
  /\ calls = 1
  /\ Call

Tick ==
  /\ pc = "done"
  /\ calls = 1
  /\ ticks < MaxTicks
  /\ today' = NextDay(today)
  /\ ticks' = ticks + 1
  /\ UNCHANGED <<accounts, instruction, pc, parseResult, ruleResult, response, calls, history,
                 tokenList, machine, steps>>

NextClock == Process \/ Repeat \/ Tick

SpecClock == InitClock /\ [][NextClock]_vars

\* ------------------------------------------------------------------ vocabulary of the properties

Done == pc = "done"

Errors == ruleResult.errors
Codes == {Errors[i].code : i \in 1..Len(Errors)}
Views == response.accounts

SyntaxCodes == {"SY03", "SY01", "SY02"}

\* the clock day the last call ran on
CallDay == history[Len(history)].today

\* calendar order of a YYYY-MM-DD token and a day
StrictlyLater(date, day) ==
  LET y == DigitsValue(SubSeq(date, 1, 4))
      m == DigitsValue(SubSeq(date, 6, 7))
      d == DigitsValue(SubSeq(date, 9, 10))
  IN  \/ y > day.y
      \/ y = day.y /\ m > day.m
      \/ y = day.y /\ m = day.m /\ d > day.d

\* the positions, in input order, of the accounts the instruction names
InvolvedIdx ==
  SelectSeq([i \in 1..Len(accounts) |-> i],
            LAMBDA i : \/ Some(accounts[i].id) = parseResult.debitAccount
                       \/ Some(accounts[i].id) = parseResult.creditAccount)

\* view k is the view of the k-th involved account of the input
ViewsMatchInput ==
  /\ Len(Views) = Len(InvolvedIdx)
  /\ \A k \in 1..Len(Views) :
       /\ Views[k].id = accounts[InvolvedIdx[k]].id
       /\ Views[k].balance_before = accounts[InvolvedIdx[k]].balance

RECURSIVE Sum(_)
Sum(ns) == IF ns = <<>> THEN 0 ELSE Head(ns) + Sum(Tail(ns))

NoViolation == Done /\ Errors = <<>>

FutureDated ==
  /\ parseResult.executeBy # Null
  /\ StrictlyLater(parseResult.executeBy[1], CallDay)

\* ------------------------------------------------------------------ C1

\* C1: an instruction without violation whose execution date is absent or not
\* strictly in the future is answered 'successful' / AP00, the views of the debit
\* account show balance_before - amount, those of the credit account
\* balance_before + amount, and the balances of the returned views add up to
\* the sum of their balance_before.
C1_ImmediateSettlementConserves ==
  (NoViolation /\ ~FutureDated) =>
    /\ response.status = "successful"
    /\ response.status_code = "AP00"
    /\ \E k \in 1..Len(Views) : Some(Views[k].id) = response.debit_account
    /\ \E k \in 1..Len(Views) : Some(Views[k].id) = response.credit_account
    /\ \A k \in 1..Len(Views) :
         /\ Some(Views[k].id) = response.debit_account =>
              Views[k].balance = Views[k].balance_before - response.amount[1]
         /\ Some(Views[k].id) = response.credit_account =>
              Views[k].balance = Views[k].balance_before + response.amount[1]
    /\ Sum([k \in 1..Len(Views) |-> Views[k].balance])
         = Sum([k \in 1..Len(Views) |-> Views[k].balance_before])

\* ------------------------------------------------------------------ C2

\* C2: an instruction without violation whose execution date is strictly later
\* than the clock day of the call is answered 'pending' / AP02 and every view
\* shows balance = balance_before = the input balance of its account.
C2_FutureDatedIsPending ==
  (NoViolation /\ FutureDated) =>
    /\ response.status = "pending"
    /\ response.status_code = "AP02"
    /\ ViewsMatchInput
    /\ \A k \in 1..Len(Views) : Views[k].balance = Views[k].balance_before

C2_Witness == NoViolation /\ FutureDated /\ Len(Views) >= 2

\* ------------------------------------------------------------------ C3

PriorityOrder ==
  <<"SY03", "SY01", "SY02", "AM01", "AC04", "DT01", "AC03", "CU02", "CU01", "AC02", "AC01">>

Rank(code) == CHOOSE i \in 1..Len(PriorityOrder) : PriorityOrder[i] = code

\* C3: when violations were accumulated, the status_code is the code of one of
\* them and no accumulated violation stands earlier in the priority order; a
\* malformed instruction naming an unsupported currency reports SY03.
C3_PrimaryErrorHasTopPriority ==
  (Done /\ Errors # <<>>) =>
    /\ response.status_code \in Codes
    /\ \A c \in Codes : Rank(response.status_code) <= Rank(c)
    /\ ({"SY03", "CU02"} \subseteq Codes => response.status_code = "SY03")

C3_Witness == Done /\ {"SY03", "CU02"} \subseteq Codes /\ response.status_code = "SY03"

\* ------------------------------------------------------------------ C4

\* C4: a response with code SY03, SY01 or SY02 has type, amount, currency,
\* debit_account, credit_account and execute_by null and no account view,
\* whatever the parser had filled in.
C4_UnparseableEchoesNothing ==
  (Done /\ response.status_code \in SyntaxCodes) =>
    /\ response.type = Null
    /\ response.amount = Null
    /\ response.currency = Null
    /\ response.debit_account = Null
    /\ response.credit_account = Null
    /\ response.execute_by = Null
    /\ Views = <<>>

C4_Witness ==
  /\ Done
  /\ response.status_code \in SyntaxCodes
  /\ parseResult.type # Null
  /\ parseResult.amount # Null
  /\ parseResult.debitAccount # Null
  /\ parseResult.creditAccount # Null
  /\ InvolvedIdx # <<>>

\* ------------------------------------------------------------------ C5

\* C5: a failed response with a code other than SY03, SY01, SY02 has type,
\* currency, debit_account and credit_account non-null and carries the parsed
\* type, amount, currency, account ids and date.
C5_ParseableFailureEchoesAll ==
  (Done /\ response.status = "failed" /\ response.status_code \notin SyntaxCodes) =>
    /\ response.type # Null
    /\ response.currency # Null
    /\ response.debit_account # Null
    /\ response.credit_account # Null
    /\ response.type = parseResult.type
    /\ response.amount = parseResult.amount
    /\ response.currency = parseResult.currency
    /\ response.debit_account = parseResult.debitAccount
    /\ response.credit_account = parseResult.creditAccount
    /\ response.execute_by = parseResult.executeBy

\* ------------------------------------------------------------------ C6

\* C6: every view's balance_before is the input balance of its account; a
\* failed or pending response leaves every balance at balance_before; in a
\* successful response a view of the debit account shows balance_before - amount
\* and a view of the credit account balance_before + amount.
C6_BalancesMoveOnlyOnSuccess ==
  Done =>
    /\ Views # <<>> => ViewsMatchInput
    /\ response.status # "successful" =>
         \A k \in 1..Len(Views) : Views[k].balance = Views[k].balance_before
    /\ response.status = "successful" =>
         \A k \in 1..Len(Views) :
           \/ /\ Some(Views[k].id) = response.debit_account
              /\ Views[k].balance = Views[k].balance_before - response.amount[1]
           \/ /\ Some(Views[k].id) = response.credit_account
              /\ Views[k].balance = Views[k].balance_before + response.amount[1]

C6_Witness ==
  /\ Done
  /\ response.status = "successful"
  /\ \E k \in 1..Len(Views) : Views[k].balance < Views[k].balance_before
  /\ \E k \in 1..Len(Views) : Views[k].balance > Views[k].balance_before

\* ------------------------------------------------------------------ C7

\* C7: the accounts list of a response has no entry or exactly two.
C7_NoneOrTwoViews == Done => Len(Views) \in {0, 2}

\* ------------------------------------------------------------------ C8

\* C8: the ids of the views are the ids of the involved input accounts in input
\* order (or there is no view), whichever account the instruction names first.
C8_ViewsInInputOrder ==
  Done =>
    \/ Views = <<>>
    \/ [k \in 1..Len(Views) |-> Views[k].id]
         = [k \in 1..Len(InvolvedIdx) |-> accounts[InvolvedIdx[k]].id]

\* the instruction names the debit account first, the input lists the credit account first
C8_Witness ==
  /\ Done
  /\ response.type = Some(KW_DEBIT)
  /\ Len(Views) = 2
  /\ Some(Views[1].id) = response.credit_account
  /\ Some(Views[2].id) = response.debit_account
  /\ Views[1].id # Views[2].id

\* ------------------------------------------------------------------ C9

IsPositiveIntegerLiteral(token) ==
  /\ token # <<>>
  /\ \A i \in 1..Len(token) : IsDigit(token[i])
  /\ DigitsValue(token) > 0

\* the instruction is grammatical but for its amount token, and names two
\* distinct accounts of the input by valid ids
GrammaticalButAmount ==
  LET tokens == tokenize(instruction)
  IN  /\ Len(tokens) >= 2
      /\ parseWithStateMachine([tokens EXCEPT ![2] = <<"1">>]).errors = <<>>
      /\ parseResult.debitAccount # parseResult.creditAccount
      /\ ruleResult.debitAccount # Null
      /\ ruleResult.creditAccount # Null
      /\ isValidAccountId(parseResult.debitAccount[1])
      /\ isValidAccountId(parseResult.creditAccount[1])

\* C9: when such an instruction's amount token is not a positive integer
\* literal, the parsed amount is null and the response is failed with AM01.
C9_BadAmountIsAM01 ==
  (Done /\ GrammaticalButAmount /\ ~IsPositiveIntegerLiteral(tokenize(instruction)[2])) =>
    /\ parseResult.amount = Null
    /\ response.status = "failed"
    /\ response.status_code = "AM01"

\* ------------------------------------------------------------------ C10

\* C10 as stated: two calls with the same inputs return identical responses,
\* whenever they are made.
C10_SameInputsSameResponse ==
  calls = 2 => history[1].response = history[2].response

\* the execution date, if any, is strictly in the future on both call days or on neither
SameSideOfDate ==
  \/ parseResult.executeBy = Null
  \/ StrictlyLater(parseResult.executeBy[1], history[1].today)
       <=> StrictlyLater(parseResult.executeBy[1], history[2].today)

\* C10 amended: two calls with the same inputs return identical responses
\* unless the instruction's execution date is strictly in the future on the day
\* of one call and not on the day of the other.
C10_SameResponseUnlessDateCrossed ==
  (calls = 2 /\ SameSideOfDate) => history[1].response = history[2].response

C10_Witness ==
  /\ calls = 2
  /\ history[1].today # history[2].today
  /\ response.execute_by # Null
  /\ response.status = "successful"
  /\ history[1].response = history[2].response

\* ------------------------------------------------------------------ C11

\* word positions of the keywords and of the currency in an instruction
CasedPositions == KeywordPositions \cup {3}

SwapChar(c) == IF c \in LowerSet THEN UpperOf[c] ELSE IF c \in UpperSet THEN LowerOf[c] ELSE c
SwapCase(s) == [i \in 1..Len(s) |-> SwapChar(s[i])]

\* the position, among the words of instr, of its run i (runs alternate)
WordPos(instr, i) == IF IsSpaceRun(instr[1]) THEN i \div 2 ELSE (i + 1) \div 2

\* instr with the letter case of the words at the positions ps exchanged
Recased(instr, ps) ==
  [i \in 1..Len(instr) |->
     IF ~IsSpaceRun(instr[i]) /\ WordPos(instr, i) \in ps THEN SwapCase(instr[i]) ELSE instr[i]]

\* the id tokens of the instruction, wherever the parser got to them
IdTokens ==
  LET words == tokenize(instruction)
  IN  {words[i] : i \in {6, 11} \cap 1..Len(words)}

ExactIds == {accounts[i].id : i \in 1..Len(accounts)}

\* The request is made, and made once more with the letter case of one keyword,
\* of the currency, or of all of them exchanged in the instruction.
CallRecased ==
  /\ pc = "done"
  /\ calls = 1
  /\ \E ps \in {{p} : p \in CasedPositions} \cup {CasedPositions} :
       LET other == Recased(instruction, ps)
       IN  /\ instruction' = other
           /\ parseResult' = parseWithStateMachine(tokenize(other))
  /\ ruleResult' = validateBusinessRules(parseResult', accounts)
  /\ response' = respond(parseResult', ruleResult', accounts, today)
  /\ calls' = calls + 1
  /\ history' = Append(history, [response |-> response', today |-> today])
  /\ UNCHANGED <<accounts, today, pc, ticks, tokenList, machine, steps>>

NextCase == Process \/ CallRecased

\* no account, the two accounts of the instructions, and an account whose
\* currency is written in lower case
CaseAccountLists ==
  { <<>>, <<AccountPool[1], AccountPool[2]>>, <<AccountPool[4], AccountPool[1]>> }

InitCase == InitWith(CaseAccountLists, InstructionsUpTo(MaxClockDeviations))

SpecCase == InitCase /\ [][NextCase]_vars

\* C11: exchanging the letter case of one keyword or of the currency, or of all
\* of them, leaves the response as it is; a returned currency is the currency
\* token in upper case; returned account ids are id tokens as written, and a
\* parsed id that is no input id character for character is recorded as not
\* found, and reported AC03 when no violation of higher priority stands.
C11_CaseOfKeywordsOnly ==
  Done =>
    /\ calls = 2 => history[1].response = history[2].response
    /\ response.currency # Null =>
         /\ Range(response.currency[1]) \cap LowerSet = {}
         /\ toLowerCase(response.currency[1]) = toLowerCase(tokenize(instruction)[3])
    /\ \A id \in {response.debit_account, response.credit_account} :
         id # Null => id[1] \in IdTokens
    /\ \A id \in {parseResult.debitAccount, parseResult.creditAccount} :
         (id # Null /\ id[1] \notin ExactIds) =>
           /\ \E i \in 1..Len(Errors) :
                Errors[i] = Err("AC03", <<"ACCOUNT_NOT_FOUND", id>>)
           /\ Codes \subseteq {"AC03", "CU02", "CU01", "AC02", "AC01"} =>
                response.status_code = "AC03"

\* an id token that differs from an input id only by its case, in an instruction
\* written with lower-case keywords
C11_Witness ==
  /\ Done
  /\ response.status_code = "AC03"
  /\ response.debit_account = Some(<<"A">>)
  /\ <<"a">> \in ExactIds
  /\ calls = 2
  /\ \E i \in 1..Len(instruction) : instruction[i] = toLowerCase(KW_ACCOUNT)

\* ------------------------------------------------------------------ C12

FailureCodes == {"SY03", "SY01", "SY02", "AM01", "AC04", "DT01", "AC03", "CU02", "CU01", "AC02", "AC01"}

\* C12: a response is successful exactly when its code is AP00, pending exactly
\* when it is AP02, failed exactly when it is one of the eleven failure codes,
\* and it is successful or pending only if no violation was accumulated.
C12_StatusCodeTable ==
  Done =>
    /\ response.status \in {"successful", "pending", "failed"}
    /\ response.status_code \in {"AP00", "AP02"} \cup FailureCodes
    /\ response.status = "successful" <=> response.status_code = "AP00"
    /\ response.status = "pending" <=> response.status_code = "AP02"
    /\ response.status = "failed" <=> response.status_code \in FailureCodes
    /\ response.status \in {"successful", "pending"} => Errors = <<>>

\* two violations accumulated, the later of them reported
C12_Witness ==
  /\ Done
  /\ response.status = "failed"
  /\ Len(Errors) >= 2
  /\ Errors[1].code = "CU02"
  /\ response.status_code = "AC03"

\* ------------------------------------------------------------------ C13

\* C13: in a DEBIT instruction the first id token is the debit account and the
\* second the credit account, in a CREDIT instruction the first id token is the
\* credit account and the second the debit account; a parse without violation
\* has both; and a successful CREDIT instruction takes the amount from the
\* account named second and adds it to the account named first.
C13_RolesFollowType ==
  Done =>
    LET words == tokenize(instruction)
        debit == parseResult.type = Some(KW_DEBIT)
        fromId == IF debit THEN 6 ELSE 11
        toId == IF debit THEN 11 ELSE 6
    IN  /\ parseResult.debitAccount # Null =>
             Len(words) >= fromId /\ parseResult.debitAccount = Some(words[fromId])
        /\ parseResult.creditAccount # Null =>
             Len(words) >= toId /\ parseResult.creditAccount = Some(words[toId])
        /\ parseResult.errors = <<>> =>
             parseResult.debitAccount # Null /\ parseResult.creditAccount # Null
        /\ (response.status = "successful" /\ parseResult.type = Some(KW_CREDIT)) =>
             /\ \E k \in 1..Len(Views) : Views[k].id = words[11]
             /\ \E k \in 1..Len(Views) : Views[k].id = words[6]
             /\ \A k \in 1..Len(Views) :
                  /\ Views[k].id = words[11] =>
                       Views[k].balance = Views[k].balance_before - response.amount[1]
                  /\ Views[k].id = words[6] =>
                       Views[k].balance = Views[k].balance_before + response.amount[1]

C13_Witness ==
  /\ Done
  /\ parseResult.type = Some(KW_CREDIT)
  /\ response.status = "successful"
  /\ response.credit_account = Some(<<"a">>)
  /\ response.debit_account = Some(<<"b">>)
  /\ \E k \in 1..Len(Views) : Views[k].id = <<"b">> /\ Views[k].balance < Views[k].balance_before

\* ------------------------------------------------------------------ C14

\* the execution date is the clock day of the call
DatedToday ==
  /\ parseResult.executeBy # Null
  /\ LET date == parseResult.executeBy[1]
     IN  /\ DigitsValue(SubSeq(date, 1, 4)) = CallDay.y
         /\ DigitsValue(SubSeq(date, 6, 7)) = CallDay.m
         /\ DigitsValue(SubSeq(date, 9, 10)) = CallDay.d

\* C14: an instruction without violation dated the clock day of the call is
\* answered 'successful' / AP00 with the amount moved from the debit account's
\* views to the credit account's; a response is pending only if the date is
\* strictly later than that day.
C14_TodaySettlesAtOnce ==
  Done =>
    /\ (Errors = <<>> /\ DatedToday) =>
         /\ response.status = "successful"
         /\ response.status_code = "AP00"
         /\ \E k \in 1..Len(Views) :
              /\ Some(Views[k].id) = response.debit_account
              /\ Views[k].balance = Views[k].balance_before - response.amount[1]
         /\ \E k \in 1..Len(Views) :
              /\ Some(Views[k].id) = response.credit_account
              /\ Views[k].balance = Views[k].balance_before + response.amount[1]
    /\ response.status = "pending" => FutureDated

C14_Witness ==
  /\ Done
  /\ DatedToday
  /\ response.status = "successful"
  /\ \E k \in 1..Len(Views) : Views[k].balance # Views[k].balance_before

\* ------------------------------------------------------------------ the parser, step by step

MaxParserDeviations == 1
MaxTail == 2

\* word lists: an instruction of Choices, up to MaxTail stray words after it, cut
\* after any number of words
ParserWordLists ==
  UNION { { SubSeq(ws, 1, k) : k \in 0..Len(ws) } :
          ws \in { ChoiceTokens(c) \o [i \in 1..n |-> StrayToken] :
                     c \in {d \in Choices : Deviations(d) <= MaxParserDeviations},
                     n \in 0..MaxTail } }

ParserInstructions == { Join(ws, <<" ">>) : ws \in ParserWordLists }

ParserAccountLists == { <<>>, <<AccountPool[1], AccountPool[2]>> }

InitParser == InitWith(ParserAccountLists, ParserInstructions)

\* const tokens = tokenize(data.instruction); the locals of the parser are set
Tokenize ==
  /\ pc = "idle"
  /\ tokenList' = tokenize(instruction)
  /\ machine' = ParserInit
  /\ steps' = 0
  /\ pc' = "parsing"
  /\ UNCHANGED <<accounts, instruction, today, parseResult, ruleResult, response, calls, ticks, history>>

\* one iteration of the loop of parseWithStateMachine
Step ==
  /\ pc = "parsing"
  /\ LoopCond(machine, tokenList)
  /\ machine' = parseStep(machine, tokenList[machine.index + 1])
  /\ steps' = steps + 1
  /\ UNCHANGED <<accounts, instruction, today, pc, parseResult, ruleResult, response, calls, ticks,
                 history, tokenList>>

\* the state the code after the loop leaves the machine in
parseComplete(ps) ==
  IF ~ps.returned /\ (ps.state = "SECOND_ACCOUNT" \/ ps.state = "DATE")
    THEN [ps EXCEPT !.state = "COMPLETE"]
    ELSE ps

\* the loop is left, by its condition or by a return, and the parser returns
Finish ==
  /\ pc = "parsing"
  /\ ~LoopCond(machine, tokenList)
  /\ parseResult' = parseFinish(machine)
  /\ machine' = parseComplete(machine)
  /\ pc' = "parsed"
  /\ UNCHANGED <<accounts, instruction, today, ruleResult, response, calls, ticks, history,
                 tokenList, steps>>

\* parseInstruction from validateBusinessRules to its return
Answer ==
  /\ pc = "parsed"
  /\ ruleResult' = validateBusinessRules(parseResult, accounts)
  /\ response' = respond(parseResult, ruleResult', accounts, today)
  /\ calls' = calls + 1
  /\ history' = Append(history, [response |-> response', today |-> today])
  /\ pc' = "done"
  /\ UNCHANGED <<accounts, instruction, today, parseResult, ticks, tokenList, machine, steps>>

NextParser == Tokenize \/ Step \/ Finish \/ Answer

SpecParser == InitParser /\ [][NextParser]_vars

\* the call is not abandoned half way
SpecParserFair == SpecParser /\ WF_vars(NextParser)

\* the parser has returned
Parsed == pc \in {"parsed", "done"}

SyntaxErrorCodes == {parseResult.errors[i].code : i \in 1..Len(parseResult.errors)}

\* ------------------------------------------------------------------ C15

\* the loop ended because the tokens ran out, in a state other than
\* SECOND_ACCOUNT and DATE
RanOutEarly ==
  /\ Parsed
  /\ ~machine.returned
  /\ machine.index = Len(tokenList)
  /\ machine.state # "COMPLETE"

\* C15: when the tokens run out in a state other than SECOND_ACCOUNT and DATE
\* and no fatal violation halted the machine, the parse result holds a MALFORMED
\* violation, whether or not INVALID_AMOUNT was recorded before, and the
\* response has status_code SY03.
C15_TruncatedIsMalformed ==
  RanOutEarly =>
    /\ "SY03" \in SyntaxErrorCodes
    /\ Done => response.status_code = "SY03"

\* ------------------------------------------------------------------ C16

\* the grammar of an instruction, word by word
ExactGrammar(ws) ==
  /\ Len(ws) \in {11, 13}
  /\ toUpperCase(ws[1]) \in {KW_DEBIT, KW_CREDIT}
  /\ IsPositiveIntegerLiteral(ws[2])
  /\ LET debit == toUpperCase(ws[1]) = KW_DEBIT
     IN  /\ toUpperCase(ws[4]) = (IF debit THEN KW_FROM ELSE KW_TO)
         /\ toUpperCase(ws[5]) = KW_ACCOUNT
         /\ toUpperCase(ws[7]) = KW_FOR
         /\ toUpperCase(ws[8]) = (IF debit THEN KW_CREDIT ELSE KW_DEBIT)
         /\ toUpperCase(ws[9]) = (IF debit THEN KW_TO ELSE KW_FROM)
         /\ toUpperCase(ws[10]) = KW_ACCOUNT
  /\ Len(ws) = 13 => toUpperCase(ws[12]) = KW_ON /\ isValidDateFormat(ws[13])

\* the first eleven words are those of an instruction, whatever its amount
GrammaticalHead(ws) ==
  /\ Len(ws) >= 11
  /\ ExactGrammar([SubSeq(ws, 1, 11) EXCEPT ![2] = <<"1">>])

\* C16: the parser returns no syntax violation exactly for the token lists of
\* the grammar; a token other than ON after the second account id, and any
\* token after the date slot, gives MALFORMED.
C16_NoViolationIffGrammatical ==
  Parsed =>
    /\ parseResult.errors = <<>> <=> ExactGrammar(tokenList)
    /\ (GrammaticalHead(tokenList) /\ Len(tokenList) >= 12
          /\ toUpperCase(tokenList[12]) # KW_ON) => "SY03" \in SyntaxErrorCodes
    /\ (GrammaticalHead(tokenList) /\ Len(tokenList) >= 14
          /\ toUpperCase(tokenList[12]) = KW_ON) => "SY03" \in SyntaxErrorCodes

\* ------------------------------------------------------------------ C17

FatalCodes == {"SY01", "SY02", "SY03"}
NonFatalCodes == {"AM01", "DT01"}

MachineErrors == machine.result.errors

\* while and after the parser runs: a halted machine has a fatal violation as
\* the last entry of its list and only non-fatal ones before it; a recorded
\* INVALID_AMOUNT or INVALID_DATE goes with a null amount or date; and the ids
\* are filled in when the words around the amount are those of an instruction
HaltedOnLastViolation ==
  pc \in {"parsing", "parsed", "done"} =>
    /\ \A i \in 1..(Len(MachineErrors) - 1) : MachineErrors[i].code \in NonFatalCodes
    /\ machine.returned =>
         /\ MachineErrors # <<>>
         /\ MachineErrors[Len(MachineErrors)].code \in FatalCodes
    /\ (~machine.returned /\ pc = "parsing") =>
         \A i \in 1..Len(MachineErrors) : MachineErrors[i].code \in NonFatalCodes
    /\ (\E i \in 1..Len(MachineErrors) : MachineErrors[i].code = "AM01") =>
         machine.result.amount = Null
    /\ (\E i \in 1..Len(MachineErrors) : MachineErrors[i].code = "DT01") =>
         machine.result.executeBy = Null
    /\ (Parsed /\ GrammaticalHead(tokenList)) =>
         /\ parseResult.debitAccount # Null
         /\ parseResult.creditAccount # Null

\* a halted machine takes no further step and its result is what the parser
\* returns; the amount slot and the date slot advance the machine by one token
\* and one state whether or not the token is valid
HaltsAtOnce ==
  /\ machine.returned =>
       /\ machine' = machine
       /\ steps' = steps
       /\ pc' = "parsed" => parseResult' = machine.result
  /\ (steps' = steps + 1 /\ machine.state = "TYPE") =>
       /\ machine'.state = "AMOUNT"
       /\ machine'.index = machine.index + 1
       /\ ~machine'.returned
       /\ machine'.result.amount = Null <=> Len(machine'.result.errors) = Len(MachineErrors) + 1
  /\ (steps' = steps + 1 /\ machine.state = "ON") =>
       /\ machine'.state = "DATE"
       /\ machine'.index = machine.index + 1
       /\ ~machine'.returned
       /\ machine'.result.executeBy = Null <=> Len(machine'.result.errors) = Len(MachineErrors) + 1

\* C17: a fatal violation halts the machine at once, is the last entry of the
\* violation list, and nothing is examined or changed after it; a non-fatal
\* violation leaves its field null, advances the machine as a valid token
\* would, and the ids are still filled in from the rest of the instruction.
C17_FatalHaltsNonFatalContinues == []HaltedOnLastViolation /\ [][HaltsAtOnce]_vars

\* halted by a fatal violation after a non-fatal one, a token left unexamined
C17_Witness ==
  /\ Parsed
  /\ machine.returned
  /\ machine.index + 1 < Len(tokenList)
  /\ Len(MachineErrors) = 2
  /\ MachineErrors[1].code = "AM01"
  /\ parseResult.debitAccount # Null
  /\ parseResult.creditAccount # Null

\* ------------------------------------------------------------------ C18

ParserOrder ==
  <<"START", "TYPE", "AMOUNT", "CURRENCY", "FIRST_KEYWORD", "FIRST_ACCOUNT_KEYWORD",
    "FIRST_ACCOUNT", "FOR", "SECOND_TYPE", "SECOND_KEYWORD", "SECOND_ACCOUNT_KEYWORD",
    "SECOND_ACCOUNT", "ON", "DATE">>

Place(state) == CHOOSE i \in 1..Len(ParserOrder) : ParserOrder[i] = state

\* an iteration of the loop halts the machine where it is, or takes it one
\* token and one state forward
HaltsOrMovesOn ==
  steps' = steps + 1 =>
    /\ machine.state \in Range(ParserOrder)
    /\ \/ /\ machine'.returned
          /\ machine'.state = machine.state
          /\ machine'.index = machine.index
       \/ /\ ~machine'.returned
          /\ Place(machine.state) < Len(ParserOrder)
          /\ machine'.state = ParserOrder[Place(machine.state) + 1]
          /\ machine'.index = machine.index + 1

StepsBounded ==
  /\ steps <= Len(tokenList)
  /\ steps <= 14
  /\ steps = machine.index + (IF machine.returned THEN 1 ELSE 0)

\* C18: every iteration halts the machine or moves it to the next state of the
\* order and to the next token; the iterations number at most the tokens and at
\* most 14; and the parser returns.
C18_NoBacktrackingTerminates ==
  /\ [][HaltsOrMovesOn]_vars
  /\ []StepsBounded
  /\ <>Parsed

\* fifteen tokens, fourteen iterations
C18_Witness ==
  /\ Parsed
  /\ Len(tokenList) = 15
  /\ steps = 14
  /\ machine.returned

\* ------------------------------------------------------------------ C19

PastSecondAccount == {"SECOND_ACCOUNT", "ON", "DATE", "COMPLETE"}

\* at and after SECOND_ACCOUNT both ids are non-empty strings
BothIdsResolved ==
  (pc \in {"parsing", "parsed", "done"} /\ machine.state \in PastSecondAccount) =>
    /\ TruthyStr(machine.result.debitAccount)
    /\ TruthyStr(machine.result.creditAccount)
    /\ Parsed =>
         /\ parseResult.debitAccount = machine.result.debitAccount
         /\ parseResult.creditAccount = machine.result.creditAccount

\* an id, once assigned, is not assigned again, and none is assigned after SECOND_ACCOUNT
IdsAssignedOnce ==
  /\ machine.result.debitAccount # Null =>
       machine'.result.debitAccount = machine.result.debitAccount
  /\ machine.result.creditAccount # Null =>
       machine'.result.creditAccount = machine.result.creditAccount
  /\ (pc = "parsing" /\ pc' = "parsed") =>
       /\ parseResult'.debitAccount = machine.result.debitAccount
       /\ parseResult'.creditAccount = machine.result.creditAccount

\* C19: in SECOND_ACCOUNT, ON, DATE and COMPLETE, and when halted in one of
\* them, debitAccount and creditAccount are both non-null strings; each was
\* assigned once, and no later token, valid or not, changes them.
C19_IdsResolvedOnce == []BothIdsResolved /\ [][IdsAssignedOnce]_vars

\* halted by a stray token after the date
C19_Witness ==
  /\ Parsed
  /\ machine.returned
  /\ machine.state = "DATE"
  /\ parseResult.debitAccount # Null
  /\ parseResult.creditAccount # Null
  /\ parseResult.debitAccount # parseResult.creditAccount

\* ------------------------------------------------------------------ C20

\* the rules in the order they are applied, each with the code it records and
\* whether its own condition holds for the parse result and the account list
RuleTable ==
  LET debit == parseResult.debitAccount
      credit == parseResult.creditAccount
      cur == parseResult.currency
      debitIdx == {i \in 1..Len(accounts) : Some(accounts[i].id) = debit}
      creditIdx == {i \in 1..Len(accounts) : Some(accounts[i].id) = credit}
      both == debitIdx # {} /\ creditIdx # {}
      first(idx) == accounts[CHOOSE i \in idx : \A j \in idx : i <= j]
      Rule(code, holds) == [code |-> code, holds |-> holds]
  IN  << Rule("AC04", debit # Null /\ ~isValidAccountId(debit[1])),
         Rule("AC04", credit # Null /\ ~isValidAccountId(credit[1])),
         Rule("AC02", debit = credit),
         Rule("CU02", cur # Null /\ cur[1] \notin SUPPORTED_CURRENCIES),
         Rule("AC03", debit # Null /\ debitIdx = {}),
         Rule("AC03", credit # Null /\ creditIdx = {}),
         Rule("CU01", both /\ first(debitIdx).currency # first(creditIdx).currency),
         Rule("CU01", both /\ cur # Null /\ toUpperCase(first(debitIdx).currency) # cur[1]),
         Rule("AC01", both /\ parseResult.amount # Null
                           /\ first(debitIdx).balance < parseResult.amount[1]) >>

CodesOf(errors) == [i \in 1..Len(errors) |-> errors[i].code]

\* C20: the list validateBusinessRules returns is the syntax violations followed
\* by one violation for each rule whose own condition holds, in the order of
\* the rules, whatever the other rules and the syntax violations are; the two
\* currency comparisons and the funds check need both account records.
C20_EveryRuleApplied ==
  Done =>
    /\ SubSeq(Errors, 1, Len(parseResult.errors)) = parseResult.errors
    /\ SubSeq(CodesOf(Errors), Len(parseResult.errors) + 1, Len(Errors))
         = CodesOf(SelectSeq(RuleTable, LAMBDA rule : rule.holds))

\* a syntax violation and three business violations together
C20_Witness ==
  /\ Done
  /\ parseResult.errors # <<>>
  /\ Len(Errors) >= Len(parseResult.errors) + 3
  /\ {"CU02", "AC03"} \subseteq Codes

\* ------------------------------------------------------------------ C21

\* both account records were found and no rule but the funds rule is violated
OnlyFundsInQuestion ==
  /\ Done
  /\ ruleResult.debitAccount # Null
  /\ ruleResult.creditAccount # Null
  /\ parseResult.amount # Null
  /\ Codes \subseteq {"AC01"}

\* C21: with nothing else wrong, an amount equal to the balance of the debit
\* account is settled (AP00 when the date is not in the future) and leaves that
\* balance at 0; an amount above it is answered AC01 with views of both
\* accounts, every view at its input balance; and AC01 is recorded only for
\* an amount above the balance.
C21_FundsAtLeastAmount ==
  /\ (OnlyFundsInQuestion /\ parseResult.amount[1] = ruleResult.debitAccount[1].balance) =>
       /\ Errors = <<>>
       /\ ~FutureDated => response.status_code = "AP00"
       /\ response.status = "successful" =>
            \E k \in 1..Len(Views) :
              /\ Some(Views[k].id) = response.debit_account
              /\ Views[k].balance_before = response.amount[1]
              /\ Views[k].balance = 0
  /\ (OnlyFundsInQuestion /\ parseResult.amount[1] > ruleResult.debitAccount[1].balance) =>
       /\ response.status = "failed"
       /\ response.status_code = "AC01"
       /\ \E k \in 1..Len(Views) : Some(Views[k].id) = response.debit_account
       /\ \E k \in 1..Len(Views) : Some(Views[k].id) = response.credit_account
       /\ ViewsMatchInput
       /\ \A k \in 1..Len(Views) : Views[k].balance = Views[k].balance_before
  /\ (Done /\ "AC01" \in Codes) =>
       parseResult.amount[1] > ruleResult.debitAccount[1].balance

\* the whole balance of the debit account is transferred
C21_Witness ==
  /\ OnlyFundsInQuestion
  /\ parseResult.amount[1] = ruleResult.debitAccount[1].balance
  /\ response.status = "successful"
  /\ \E k \in 1..Len(Views) : Views[k].balance = 0 /\ Views[k].balance_before > 0

\* ------------------------------------------------------------------ C22

\* positions of the first record with the debit id and the first with the credit id
FirstMatchIdx ==
  {i \in 1..Len(accounts) :
     /\ \/ Some(accounts[i].id) = parseResult.debitAccount
        \/ Some(accounts[i].id) = parseResult.creditAccount
     /\ \A j \in 1..(i - 1) : accounts[j].id # accounts[i].id}

Settled == Done /\ response.status \in {"successful", "pending"}

\* C22: a settled response (successful or pending) has views of exactly the
\* two records found by first-match lookup, in input order, and of no other
\* input record, duplicate ids included.
C22_SettlementTouchesTwoRecords ==
  Settled =>
    /\ Len(Views) = 2
    /\ Cardinality(FirstMatchIdx) = 2
    /\ \A k \in 1..2 :
         LET i == CHOOSE i \in FirstMatchIdx :
                    Cardinality({j \in FirstMatchIdx : j <= i}) = k
         IN /\ Views[k].id = accounts[i].id
            /\ Views[k].balance_before = accounts[i].balance

\* the same statement for input lists without a repeated id
C22_TwoRecordsWithoutDuplicates ==
  (\A i, j \in 1..Len(accounts) : accounts[i].id = accounts[j].id => i = j) =>
    C22_SettlementTouchesTwoRecords

\* ------------------------------------------------------------------ C25

\* C25: with no negative balance in the input, no view of a successful
\* response has a negative balance.
C25_NeverOverdrawn ==
  (Done /\ response.status = "successful"
        /\ \A i \in 1..Len(accounts) : accounts[i].balance >= 0) =>
    \A k \in 1..Len(Views) : Views[k].balance >= 0

\* the same statement for the record the funds rule looked at
C25_CheckedRecordNotOverdrawn ==
  (Done /\ response.status = "successful") =>
    \A k \in 1..Len(Views) :
      (\E i \in FirstMatchIdx : i = InvolvedIdx[k]) => Views[k].balance >= 0

\* ------------------------------------------------------------------ C23

\* the parser left the debit or the credit account id unset
IdLeftNull == parseResult.debitAccount = Null \/ parseResult.creditAccount = Null

\* C23: a response with status_code AC02 names a debit and a credit account,
\* both non-null and equal; and a parse that leaves an account id null carries
\* a syntax violation or AM01, each of higher priority than AC02.
C23_SameAccountNeverOnNulls ==
  /\ (Done /\ response.status_code = "AC02") =>
       /\ response.debit_account # Null
       /\ response.credit_account # Null
       /\ response.debit_account = response.credit_account
  /\ (Parsed /\ IdLeftNull) =>
       \E code \in SyntaxErrorCodes :
         /\ code \in SyntaxCodes \cup {"AM01"}
         /\ priority(code) < priority("AC02")
  /\ (Done /\ IdLeftNull) => response.status_code \in SyntaxCodes \cup {"AM01"}

\* an instruction naming one account twice is answered AC02
C23_Witness ==
  /\ Done
  /\ response.status_code = "AC02"
  /\ response.debit_account = response.credit_account

\* ------------------------------------------------------------------ C24

\* Account lists whose currencies differ in spelling or in value: both records
\* in lower case, and a second record of id a in another currency, after and
\* before the first.
usd == <<"u","s","d">>
GBP == <<"G","B","P">>

CurrencyAccountLists ==
  { << Account(<<"a">>, 100, USD), Account(<<"b">>, 30, USD) >>,
    << Account(<<"a">>, 100, usd), Account(<<"b">>, 30, usd) >>,
    << Account(<<"a">>, 100, usd), Account(<<"b">>, 30, USD) >>,
    << Account(<<"a">>, 100, USD), Account(<<"a">>, 20, GBP), Account(<<"b">>, 30, USD) >>,
    << Account(<<"a">>, 20, GBP), Account(<<"a">>, 100, USD), Account(<<"b">>, 30, USD) >> }

InitCurrency == InitWith(CurrencyAccountLists, InstructionsUpTo(MaxClockDeviations))

SpecCurrency == InitCurrency /\ [][Next]_vars

\* C24: a successful or pending response has a currency among NGN, USD, GBP
\* and GHS, a debit account other than the credit account, a positive integer
\* amount, and in every account view the currency of the response.
C24_SettledResponseWellFormed ==
  Settled =>
    /\ response.currency # Null
    /\ response.currency[1] \in SUPPORTED_CURRENCIES
    /\ response.debit_account # response.credit_account
    /\ response.amount # Null
    /\ response.amount[1] \in Nat \ {0}
    /\ \A k \in 1..Len(Views) : Some(Views[k].currency) = response.currency

\* the same statement with the currency asked of the views of the two
\* first-match records only
C24_WellFormedOnCheckedRecords ==
  Settled =>
    /\ response.currency # Null
    /\ response.currency[1] \in SUPPORTED_CURRENCIES
    /\ response.debit_account # response.credit_account
    /\ response.amount # Null
    /\ response.amount[1] \in Nat \ {0}
    /\ \A k \in 1..Len(Views) :
         (\E i \in FirstMatchIdx : i = InvolvedIdx[k]) =>
           Some(Views[k].currency) = response.currency

====
